---- MODULE Spec2Model ----
(***************************************************************************)
(* Model of the TCAV module of the LIT client                              *)
(* (src/lit_nlp/client/modules/tcav_module.ts).                            *)
(*                                                                         *)
(* The browser runs the module on one thread: an event handler, and the    *)
(* part of runTCAV between two awaits, run to completion.  Each action     *)
(* below is one such uninterrupted piece.  p-values and scores are kept    *)
(* in hundredths (0.5 is 50).                                              *)
(***************************************************************************)
EXTENDS Integers, Sequences, FiniteSets, TLC

VARIABLES
  scores,         \* TCAVModule.scores, the map handed to the bar chart
  selectedSlice,  \* TCAVModule.selectedSlice
  selectedLayer,  \* TCAVModule.selectedLayer
  selectedClass,  \* TCAVModule.selectedClass
  isLoading,      \* TCAVModule.isLoading
  sliceNames,     \* SliceService.sliceNames
  sliceStore,     \* what SliceService.getSliceByName returns for each name
  runs,           \* one record per invocation of runTCAV (its locals)
  nRuns,          \* number of invocations of runTCAV so far
  pending,        \* requests issued and not yet settled
  latest,         \* promise last registered with loadLatest under the key
  nextPromise,    \* identity of the next promise created
  writer,         \* history: the invocation that last assigned this.scores
  written,        \* history: that invocation's record when it returned
  modelSpec,      \* appState.getModelSpec(this.model)
  datasetSpec,    \* the spec of the dataset in use
  display,        \* what shouldDisplayModule answered, once it has been asked
  phase,          \* the element: "new", "drawn" after its first render, "threw"
  rendered,       \* the element has rendered once and firstUpdated has run
  events          \* number of dropdown and slice service changes so far

vars == <<scores, selectedSlice, selectedLayer, selectedClass, isLoading,
          sliceNames, sliceStore, runs, nRuns, pending, latest, nextPromise,
          writer, written, modelSpec, datasetSpec, display, phase, rendered, events>>

-----------------------------------------------------------------------------
(* Bounds *)

MaxRuns == 2
MaxEvents == 1

-----------------------------------------------------------------------------
(* Constants of the module *)

MIN_EXAMPLES_LENGTH == 2
ALL == "all"
TCAV_NAME == "tcav"
P_VAL_THRESHOLD == 50

-----------------------------------------------------------------------------
(* Environment: slices, model outputs, server results *)

Names == {"a", "b"}

\* Lists of example ids a slice may hold: below the minimum and at it.
MemberLists == {<<1>>, <<2, 3>>}

NullSlice == [isNull |-> TRUE, ids |-> <<>>]

SliceVals == {NullSlice} \cup {[isNull |-> FALSE, ids |-> l] : l \in MemberLists}

NameLists == {<<>>} \cup {<<n>> : n \in Names}
               \cup {<<n, m>> : <<n, m>> \in {p \in Names \X Names : p[1] # p[2]}}

getSliceByName(slice) == IF slice \in Names THEN sliceStore[slice] ELSE NullSlice

\* Output fields of a model, in the order of the spec's keys.
Field(key, type, vocab) == [key |-> key, type |-> type, vocab |-> vocab]

ModelSpecs ==
  { [output |-> << Field("probas", "MulticlassPreds", <<"cat">>),
                   Field("cls_emb", "Embeddings", <<>>),
                   Field("L1", "Gradients", <<>>) >>] }

\* The spec of the dataset in use: its fields, by type.
DatasetSpecs == { <<Field("sentence", "TextSegment", <<>>)>> }

\* findSpecKeys of lib/utils: the keys of the fields of the given type.
RECURSIVE findSpecKeys(_, _)
findSpecKeys(output, type) ==
  IF output = <<>> THEN <<>>
  ELSE IF Head(output).type = type
       THEN <<Head(output).key>> \o findSpecKeys(Tail(output), type)
       ELSE findSpecKeys(Tail(output), type)

\* output[key] of a spec.
fieldOf(output, key) == CHOOSE f \in {output[k] : k \in 1..Len(output)} : f.key = key

gradKeys == findSpecKeys(modelSpec.output, "Gradients")

predKeys == findSpecKeys(modelSpec.output, "MulticlassPreds")

\* Line 81 with no key found: predKeys[0] is undefined, so is
\* output[undefined], and reading its vocab is a TypeError.
predClassesThrows == predKeys = <<>>

predClasses == fieldOf(modelSpec.output, predKeys[1]).vocab

\* doesOutputSpecContain of lib/utils: the model has an output of the type.
doesOutputSpecContain(modelSpecs, type) == findSpecKeys(modelSpecs.output, type) # <<>>

\* shouldDisplayModule without the test of supportsEmbs.
shouldDisplayModuleNoEmbs(modelSpecs, dataset) ==
  /\ doesOutputSpecContain(modelSpecs, "Gradients")
  /\ doesOutputSpecContain(modelSpecs, "MulticlassPreds")

shouldDisplayModule(modelSpecs, dataset) ==
  LET supportsEmbs == doesOutputSpecContain(modelSpecs, "Embeddings")
      supportsGrads == doesOutputSpecContain(modelSpecs, "Gradients")
      multiclassPreds == doesOutputSpecContain(modelSpecs, "MulticlassPreds")
  IN IF supportsGrads /\ supportsEmbs /\ multiclassPreds THEN TRUE ELSE FALSE

\* The layout asks whether the module is to be shown.
askShouldDisplay ==
  /\ display = "unknown"
  /\ display' = IF shouldDisplayModule(modelSpec, datasetSpec)
                THEN "shown" ELSE "hidden"
  /\ UNCHANGED <<scores, selectedSlice, selectedLayer, selectedClass, isLoading,
                 sliceNames, sliceStore, runs, nRuns, pending, latest,
                 nextPromise, writer, written, modelSpec, datasetSpec, phase,
                 rendered, events>>

\* The first render of the element.  renderSelectors reads predClasses
\* (line 135); when that throws, nothing is drawn and the element stays
\* without its first update.
render ==
  /\ phase = "new"
  /\ phase' = IF predClassesThrows THEN "threw" ELSE "drawn"
  /\ UNCHANGED <<scores, selectedSlice, selectedLayer, selectedClass, isLoading,
                 sliceNames, sliceStore, runs, nRuns, pending, latest,
                 nextPromise, writer, written, modelSpec, datasetSpec, display,
                 rendered, events>>

\* firstUpdated that sets the layer whatever it was.
defaultLayerAlways == IF Len(gradKeys) > 0 THEN gradKeys[1] ELSE selectedLayer

\* Lines 86-88.
defaultLayer ==
  IF selectedLayer = "" /\ Len(gradKeys) > 0 THEN gradKeys[1] ELSE selectedLayer

\* Lines 90-92.
defaultClass ==
  IF selectedClass = "" /\ Len(predClasses) > 0 THEN predClasses[1] ELSE selectedClass

\* Called once, after the first render.  rendered is set when it is over: from
\* then on the dropdowns and the button are in use.
firstUpdated ==
  /\ phase = "drawn"
  /\ ~rendered
  /\ selectedLayer' = defaultLayer
  /\ IF predClassesThrows
     THEN /\ phase' = "threw"
          /\ UNCHANGED <<selectedClass, rendered>>
     ELSE /\ selectedClass' = defaultClass
          /\ rendered' = TRUE
          /\ phase' = phase
  /\ UNCHANGED <<scores, selectedSlice, isLoading, sliceNames, sliceStore, runs,
                 nRuns, pending, latest, nextPromise, writer, written, modelSpec,
                 datasetSpec, display, events>>

\* What the application state holds: the examples of the dataset in use, its
\* name, and the name of the model the module is shown for.
currentInputData == <<1, 2, 3, 4>>

currentDataset == "sst_dev"

model == "sst_model"

Entry(p, s) == [p_val |-> p, result |-> [score |-> s]]

Results == { <<Entry(10, 70)>>,
             <<Entry(50, 90)>>,
             <<Entry(60, 90), Entry(10, 70)>> }

EmptyMap == [x \in {} |-> 0]

Range(s) == {s[k] : k \in 1..Len(s)}

-----------------------------------------------------------------------------
(* render: the disabled attribute of the Run button *)

RECURSIVE shouldDisableFrom(_, _)
shouldDisableFrom(slices, k) ==
  IF k > Len(slices) THEN TRUE
  ELSE LET examples == getSliceByName(slices[k])
       IN IF examples.isNull THEN TRUE
          ELSE IF Len(examples.ids) >= MIN_EXAMPLES_LENGTH THEN FALSE
          ELSE shouldDisableFrom(slices, k + 1)

candidateSlices == IF selectedSlice = ALL THEN sliceNames ELSE <<selectedSlice>>

\* A Run button that is never disabled.
shouldDisableNever == FALSE

shouldDisable == shouldDisableFrom(candidateSlices, 1)

-----------------------------------------------------------------------------
(* runTCAV *)

IdleRun == [pc |-> "idle", slicesToRun |-> <<>>, i |-> 0, scores |-> EmptyMap,
            startScores |-> EmptyMap, skipped |-> {}, reqs |-> <<>>,
            results |-> <<>>]

\* What is left of an invocation once it has returned: how it ended and the
\* working map it had built.  Its other locals are gone.
returned(rr, how) == [IdleRun EXCEPT !.pc = how, !.scores = rr.scores]

\* Line 177: the working map of an invocation.
newWorkingMap == EmptyMap

\* skipSlice without the length test of line 186.
skipSliceNullOnly(slice) == getSliceByName(slice).isNull

\* The test of lines 185-188: the slice is passed over.
skipSlice(slice) ==
  LET selectedIds == getSliceByName(slice)
  IN selectedIds.isNull \/ Len(selectedIds.ids) < MIN_EXAMPLES_LENGTH

\* Index of the first slice at or after k that is not passed over.
RECURSIVE nextToRun(_, _)
nextToRun(slices, k) ==
  IF k > Len(slices) THEN k
  ELSE IF skipSlice(slices[k]) THEN nextToRun(slices, k + 1)
  ELSE k

\* finishRun that adds the working map to this.scores instead of replacing it.
finishRunMerging(r, rr, inFlight) ==
  /\ runs' = [runs EXCEPT ![r] = returned(rr, "done")]
  /\ isLoading' = FALSE
  /\ scores' = rr.scores @@ scores
  /\ writer' = r
  /\ written' = [rr EXCEPT !.pc = "done"]
  /\ pending' = inFlight
  /\ UNCHANGED <<latest, nextPromise>>

\* finishRun without line 216.
finishRunKeepsLoading(r, rr, inFlight) ==
  /\ runs' = [runs EXCEPT ![r] = returned(rr, "done")]
  /\ scores' = rr.scores
  /\ writer' = r
  /\ written' = [rr EXCEPT !.pc = "done"]
  /\ pending' = inFlight
  /\ UNCHANGED <<isLoading, latest, nextPromise>>

\* Lines 216-217: the loop is over.  rr is the invocation's record, inFlight
\* the requests still unsettled.
finishRun(r, rr, inFlight) ==
  /\ runs' = [runs EXCEPT ![r] = returned(rr, "done")]
  /\ isLoading' = FALSE
  /\ scores' = rr.scores
  /\ writer' = r
  /\ written' = [rr EXCEPT !.pc = "done"]
  /\ pending' = inFlight
  /\ UNCHANGED <<latest, nextPromise>>

\* issueRequest's request with the concept set as its inputs.
requestOfConceptSet(r, slice, config) ==
  [id |-> nextPromise, run |-> r, slice |-> slice,
   inputs |-> config.concept_set_ids, model |-> model,
   dataset |-> currentDataset, name |-> TCAV_NAME, config |-> config,
   resolved |-> getSliceByName(slice)]

\* Lines 198-200: the call of getInterpretations made by invocation r for the
\* slice.  id is the promise it returns; resolved notes what the slice
\* resolved to when the call was made.
requestFor(r, slice, config) ==
  [id |-> nextPromise, run |-> r, slice |-> slice,
   inputs |-> currentInputData, model |-> model,
   dataset |-> currentDataset, name |-> TCAV_NAME, config |-> config,
   resolved |-> getSliceByName(slice)]

\* Lines 190-202: the request for candidate j is built, sent and handed to
\* loadLatest, and the invocation waits for it.
issueRequest(r, rr, j, loading, inFlight) ==
  LET slice == rr.slicesToRun[j]
      config == [concept_set_ids |-> getSliceByName(slice).ids,
                 class_to_explain |-> selectedClass,
                 grad_layer |-> selectedLayer]
      req == requestFor(r, slice, config)
  IN /\ runs' = [runs EXCEPT ![r] = [rr EXCEPT !.pc = "awaiting",
                                              !.reqs = Append(@, req)]]
     /\ pending' = inFlight \cup {req}
     /\ latest' = nextPromise
     /\ nextPromise' = nextPromise + 1
     /\ isLoading' = loading
     /\ UNCHANGED <<scores, writer, written>>

\* The for loop from candidate k on, up to the next await or to the end of
\* the function.  loading is the value of isLoading when the loop is entered.
\* The record notes what each slice passed over resolved to.
loopFrom(r, rr, k, loading, inFlight) ==
  LET j == nextToRun(rr.slicesToRun, k)
      passed == {[slice |-> rr.slicesToRun[m],
                  resolved |-> getSliceByName(rr.slicesToRun[m])] : m \in k..(j - 1)}
      rr2 == [rr EXCEPT !.i = j, !.skipped = @ \cup passed]
  IN IF j > Len(rr.slicesToRun)
     THEN finishRun(r, rr2, inFlight)
     ELSE issueRequest(r, rr2, j, loading, inFlight)

\* Click on the Run button: lines 159-160 and 175-183, then the loop.
RunTCAV ==
  /\ rendered
  /\ nRuns < MaxRuns
  /\ ~shouldDisable
  /\ nRuns' = nRuns + 1
  /\ loopFrom(nRuns + 1,
              [IdleRun EXCEPT !.slicesToRun = candidateSlices,
                              !.scores = newWorkingMap,
                              !.startScores = scores],
              1, TRUE, pending)
  /\ UNCHANGED <<selectedSlice, selectedLayer, selectedClass, sliceNames,
                 sliceStore, modelSpec, datasetSpec, display, phase, rendered, events>>

\* loadLatest: the promise is still the last one registered under the key.
isLatest(p) == p.id = latest

\* abortRun without line 204.
abortRunKeepsLoading(p) ==
  /\ runs' = [runs EXCEPT ![p.run] = returned(@, "aborted")]
  /\ pending' = pending \ {p}
  /\ UNCHANGED <<isLoading, scores, writer, written, latest, nextPromise>>

\* abortRun that hands the working map to the chart before returning.
abortRunPublishes(p) ==
  /\ runs' = [runs EXCEPT ![p.run] = returned(@, "aborted")]
  /\ isLoading' = FALSE
  /\ scores' = runs[p.run].scores
  /\ pending' = pending \ {p}
  /\ UNCHANGED <<writer, written, latest, nextPromise>>

\* Lines 203-206: the awaited result is null.
abortRun(p) ==
  /\ runs' = [runs EXCEPT ![p.run] = returned(@, "aborted")]
  /\ isLoading' = FALSE
  /\ pending' = pending \ {p}
  /\ UNCHANGED <<scores, writer, written, latest, nextPromise>>

\* recordScore without the comparison of line 210.
recordScoreUnfiltered(working, slice, result) ==
  (slice :> result[1].result.score) @@ working

\* recordScore with <= in place of < on line 210.
recordScoreInclusive(working, slice, result) ==
  IF result[1].p_val <= P_VAL_THRESHOLD
  THEN (slice :> result[1].result.score) @@ working
  ELSE working

\* Lines 210-214: the filter on the first entry of the result.
recordScore(working, slice, result) ==
  IF result[1].p_val < P_VAL_THRESHOLD
  THEN (slice :> result[1].result.score) @@ working
  ELSE working

\* keepResult that goes on with the same candidate.
keepResultAgain(p, result) ==
  LET rr == runs[p.run]
  IN loopFrom(p.run,
              [rr EXCEPT !.scores = recordScore(@, p.slice, result),
                         !.results = Append(@, result)],
              rr.i, isLoading, pending \ {p})

\* Lines 207-217: the result is kept, and the loop goes on.
keepResult(p, result) ==
  LET rr == runs[p.run]
  IN loopFrom(p.run,
              [rr EXCEPT !.scores = recordScore(@, p.slice, result),
                         !.results = Append(@, result)],
              rr.i + 1, isLoading, pending \ {p})

\* The request p settles with the given result and runTCAV resumes.
Settle(p, result) ==
  /\ p \in pending
  /\ IF isLatest(p) THEN keepResult(p, result) ELSE abortRun(p)
  /\ UNCHANGED <<selectedSlice, selectedLayer, selectedClass, sliceNames,
                 sliceStore, nRuns, modelSpec, datasetSpec, display, phase, rendered, events>>

-----------------------------------------------------------------------------
(* renderSelectors: the three dropdowns *)

\* handleSliceChange that also empties the chart's map.
handleSliceChangeClears(value) ==
  /\ rendered
  /\ value \in {ALL} \cup Range(sliceNames)
  /\ events < MaxEvents
  /\ value # selectedSlice
  /\ selectedSlice' = value
  /\ scores' = EmptyMap
  /\ events' = events + 1
  /\ UNCHANGED <<selectedLayer, selectedClass, isLoading, sliceNames,
                 sliceStore, runs, nRuns, pending, latest, nextPromise, writer,
                 written, modelSpec, datasetSpec, display, phase, rendered>>

handleSliceChange(value) ==
  /\ rendered
  /\ value \in {ALL} \cup Range(sliceNames)
  /\ events < MaxEvents
  /\ value # selectedSlice
  /\ selectedSlice' = value
  /\ events' = events + 1
  /\ UNCHANGED <<scores, selectedLayer, selectedClass, isLoading, sliceNames,
                 sliceStore, runs, nRuns, pending, latest, nextPromise, writer,
                 written, modelSpec, datasetSpec, display, phase, rendered>>

handleLayerChange(value) ==
  /\ rendered
  /\ value \in {ALL} \cup Range(gradKeys)
  /\ events < MaxEvents
  /\ value # selectedLayer
  /\ selectedLayer' = value
  /\ events' = events + 1
  /\ UNCHANGED <<scores, selectedSlice, selectedClass, isLoading, sliceNames,
                 sliceStore, runs, nRuns, pending, latest, nextPromise, writer,
                 written, modelSpec, datasetSpec, display, phase, rendered>>

handleClassChange(value) ==
  /\ rendered
  /\ value \in {ALL} \cup Range(predClasses)
  /\ events < MaxEvents
  /\ value # selectedClass
  /\ selectedClass' = value
  /\ events' = events + 1
  /\ UNCHANGED <<scores, selectedSlice, selectedLayer, isLoading, sliceNames,
                 sliceStore, runs, nRuns, pending, latest, nextPromise, writer,
                 written, modelSpec, datasetSpec, display, phase, rendered>>

-----------------------------------------------------------------------------
(* The slice service, changed from elsewhere in the application *)

SliceMembersChange(name, val) ==
  /\ events < MaxEvents
  /\ sliceStore[name] # val
  /\ sliceStore' = [sliceStore EXCEPT ![name] = val]
  /\ events' = events + 1
  /\ UNCHANGED <<scores, selectedSlice, selectedLayer, selectedClass, isLoading,
                 sliceNames, runs, nRuns, pending, latest, nextPromise, writer,
                 written, modelSpec, datasetSpec, display, phase, rendered>>

SliceNamesChange(names) ==
  /\ events < MaxEvents
  /\ sliceNames # names
  /\ sliceNames' = names
  /\ events' = events + 1
  /\ UNCHANGED <<scores, selectedSlice, selectedLayer, selectedClass, isLoading,
                 sliceStore, runs, nRuns, pending, latest, nextPromise, writer,
                 written, modelSpec, datasetSpec, display, phase, rendered>>

-----------------------------------------------------------------------------

Init ==
  /\ scores = EmptyMap
  /\ selectedSlice = ALL
  /\ selectedLayer = ""
  /\ selectedClass = ""
  /\ isLoading = FALSE
  /\ sliceNames = <<"a", "b">>
  /\ sliceStore \in [Names -> SliceVals]
  /\ runs = [r \in 1..MaxRuns |-> IdleRun]
  /\ nRuns = 0
  /\ pending = {}
  /\ latest = 0
  /\ nextPromise = 1
  /\ writer = 0
  /\ written = IdleRun
  /\ modelSpec \in ModelSpecs
  /\ datasetSpec \in DatasetSpecs
  /\ display = "unknown"
  /\ phase = "new"
  /\ rendered = FALSE
  /\ events = 0

Next ==
  \/ render
  \/ firstUpdated
  \/ RunTCAV
  \/ \E p \in pending, result \in Results : Settle(p, result)
  \/ \E value \in {ALL} \cup Names : handleSliceChange(value)
  \/ rendered /\ \E value \in {ALL} \cup Range(gradKeys) : handleLayerChange(value)
  \/ rendered /\ \E value \in {ALL} \cup Range(predClasses) : handleClassChange(value)
  \/ \E name \in Names, val \in SliceVals : SliceMembersChange(name, val)
  \/ \E names \in NameLists : SliceNamesChange(names)

Spec == Init /\ [][Next]_vars

-----------------------------------------------------------------------------
(* The module over a range of models, for the functions of the model spec *)

PanelModelSpecs ==
  { [output |-> << Field("probas", "MulticlassPreds", <<"cat", "dog">>),
                   Field("cls_emb", "Embeddings", <<>>),
                   Field("L1", "Gradients", <<>>),
                   Field("L2", "Gradients", <<>>) >>],
    [output |-> << Field("L1", "Gradients", <<>>),
                   Field("probas", "MulticlassPreds", <<"cat", "dog">>) >>],
    [output |-> << Field("probas", "MulticlassPreds", <<"cat", "dog">>),
                   Field("cls_emb", "Embeddings", <<>>) >>],
    [output |-> << Field("cls_emb", "Embeddings", <<>>),
                   Field("L1", "Gradients", <<>>) >>],
    [output |-> << Field("cls_emb", "Embeddings", <<>>),
                   Field("L1", "Gradients", <<>>),
                   Field("probas", "MulticlassPreds", <<>>) >>],
    [output |-> << Field("topic", "MulticlassPreds", <<"dog", "cat">>),
                   Field("L2", "Gradients", <<>>),
                   Field("cls_emb", "Embeddings", <<>>),
                   Field("probas", "MulticlassPreds", <<"cat">>) >>] }

PanelDatasetSpecs ==
  { <<Field("sentence", "TextSegment", <<>>)>>,
    <<Field("sentence", "TextSegment", <<>>),
      Field("label", "CategoryLabel", <<"cat", "dog">>)>> }

\* firstUpdated may find the layer and the class empty or set.
PanelInit ==
  /\ scores = EmptyMap
  /\ selectedSlice = ALL
  /\ selectedLayer \in {"", "L2"}
  /\ selectedClass \in {"", "dog"}
  /\ isLoading = FALSE
  /\ sliceNames = <<"a">>
  /\ sliceStore = [n \in Names |-> [isNull |-> FALSE, ids |-> <<2, 3>>]]
  /\ runs = [r \in 1..MaxRuns |-> IdleRun]
  /\ nRuns = 0
  /\ pending = {}
  /\ latest = 0
  /\ nextPromise = 1
  /\ writer = 0
  /\ written = IdleRun
  /\ modelSpec \in PanelModelSpecs
  /\ datasetSpec \in PanelDatasetSpecs
  /\ display = "unknown"
  /\ phase = "new"
  /\ rendered = FALSE
  /\ events = 0

\* The slices stay as they are here.
PanelNext ==
  \/ askShouldDisplay
  \/ render
  \/ firstUpdated
  \/ RunTCAV
  \/ \E p \in pending, result \in Results : Settle(p, result)
  \/ \E value \in {ALL} \cup Names : handleSliceChange(value)
  \/ rendered /\ \E value \in {ALL} \cup Range(gradKeys) : handleLayerChange(value)
  \/ rendered /\ \E value \in {ALL} \cup Range(predClasses) : handleClassChange(value)

PanelSpec == PanelInit /\ [][PanelNext]_vars

-----------------------------------------------------------------------------
(* Properties *)

Runs == 1..MaxRuns

InProgress(r) == runs[r].pc = "awaiting"

\* The records that hold a history: the invocations in progress and the one
\* that last assigned this.scores.
Histories == {runs[r] : r \in {q \in Runs : InProgress(q)}}
               \cup (IF writer = 0 THEN {} ELSE {written})

Significant(result) == result[1].p_val < 50

Qualifies(resolved) == ~resolved.isNull /\ Len(resolved.ids) >= 2

\* A newer invocation started while r was waiting for a request.
Superseded(r) == InProgress(r) /\ r < nRuns

\* C1: every key of this.scores is a slice that was a candidate of the
\* invocation that assigned the map, resolved to at least 2 examples when that
\* invocation reached it, and got a kept result whose first entry has a
\* p-value below 0.5; the value under the key is that entry's score.  Before
\* any assignment the map is empty.
ScoreMapEntriesJustified ==
  IF writer = 0 THEN scores = EmptyMap
  ELSE \A s \in DOMAIN scores :
         /\ s \in Range(written.slicesToRun)
         /\ \E k \in 1..Len(written.results) :
              /\ written.reqs[k].slice = s
              /\ Qualifies(written.reqs[k].resolved)
              /\ Significant(written.results[k])
              /\ scores[s] = written.results[k][1].result.score

ScoreMapEntryWritten == writer # 0 /\ scores # EmptyMap

\* C2: once a newer invocation has started, the request an older invocation is
\* waiting for is no longer the latest one, so the older invocation gets null
\* for it: its next step is to abort, and it never assigns this.scores.
SupersededRunIsDiscarded ==
  [][\A r \in Runs :
       Superseded(r) =>
         /\ \A p \in pending : p.run = r => ~isLatest(p)
         /\ runs'[r].pc \in {"awaiting", "aborted"}
         /\ (runs'[r].pc = "aborted" => scores' = scores /\ writer' = writer)]_vars

SupersededRunAborted ==
  \E r \in Runs : runs[r].pc = "aborted" /\ r < nRuns

\* C3: when the awaited request of an invocation settles stale, the invocation
\* returns at once: isLoading becomes false, no request is issued, and
\* this.scores is left as it was, whatever the working map held.
StaleResultAbortsRun ==
  [][\A p \in pending :
       (p \notin pending' /\ ~isLatest(p)) =>
         /\ isLoading' = FALSE
         /\ pending' = pending \ {p}
         /\ nextPromise' = nextPromise /\ latest' = latest
         /\ runs'[p.run].pc = "aborted"
         /\ scores' = scores /\ writer' = writer]_vars

AbortedWithEntriesUnseen ==
  \E r \in Runs :
    /\ runs[r].pc = "aborted"
    /\ runs[r].scores # EmptyMap
    /\ scores = EmptyMap
    /\ ~isLoading

\* C4: the Run button is enabled exactly when some candidate slice resolves
\* to a list of at least 2 examples, wherever in the candidate list it is.
RunEnabledIffSomeCandidateQualifies ==
  ~shouldDisable <=>
    \E k \in 1..Len(candidateSlices) : Qualifies(getSliceByName(candidateSlices[k]))

\* C5: after an invocation has completed, this.scores holds exactly the slices
\* for which that invocation kept a significant result, with their scores:
\* nothing of an earlier map is left, and the map is empty when the invocation
\* kept no significant result.
ScoreMapIsLastRunsMap ==
  writer # 0 =>
    /\ DOMAIN scores = {written.reqs[k].slice :
                          k \in {m \in 1..Len(written.results) :
                                   Significant(written.results[m])}}
    /\ scores = written.scores

\* An earlier map with a key that the map of the second invocation lacks.
ScoreMapReplaced ==
  /\ writer = 2
  /\ runs[1].pc = "done"
  /\ DOMAIN runs[1].scores # {}
  /\ DOMAIN scores # {}
  /\ DOMAIN scores \cap DOMAIN runs[1].scores = {}

\* C6: this.scores is empty at first and changes only in a step in which an
\* invocation completes; while the invocation started last is in progress,
\* this.scores is still what it was when that invocation started.
ScoreMapChangesOnlyAtCompletion ==
  /\ scores = EmptyMap
  /\ [][scores' # scores =>
          \E r \in Runs : InProgress(r) /\ runs'[r].pc = "done"]_vars
  /\ [](\A r \in Runs :
          (InProgress(r) /\ r = nRuns) => scores = runs[r].startScores)

\* The last invocation has recorded a result and waits for its next request,
\* and the chart's map is still the one an earlier invocation left.
WorkingMapNotYetVisible ==
  /\ nRuns = 2
  /\ InProgress(2)
  /\ runs[2].scores # EmptyMap
  /\ scores # EmptyMap
  /\ scores # runs[2].scores

RunsEndWithLoadingCleared ==
  /\ [][nRuns' # nRuns => isLoading']_vars
  /\ \A r \in Runs : InProgress(r) ~> (runs[r].pc \in {"done", "aborted"})
  /\ []((\A r \in Runs : ~InProgress(r)) => ~isLoading)

AllRunsReturned ==
  /\ nRuns = 2
  /\ runs[1].pc = "aborted"
  /\ runs[2].pc = "done"
  /\ ~isLoading

\* The position of a slice in a list without repetition.
PosIn(slices, s) == CHOOSE k \in 1..Len(slices) : slices[k] = s

\* C9: an invocation has at most one request unsettled; its requests are for
\* candidates at strictly increasing positions of its candidate list, so no
\* candidate is asked for twice; and a request is issued only when all the
\* earlier ones of the invocation have settled.
RequestsAreSequential ==
  /\ \A r \in Runs :
       LET mine == {p \in pending : p.run = r}
       IN /\ Cardinality(mine) <= 1
          /\ InProgress(r) <=> mine # {}
          /\ InProgress(r) =>
               /\ runs[r].reqs # <<>>
               /\ mine = {runs[r].reqs[Len(runs[r].reqs)]}
               /\ Len(runs[r].results) = Len(runs[r].reqs) - 1
  /\ writer # 0 => Len(written.results) = Len(written.reqs)
  /\ \A h \in Histories :
       /\ \A k \in 1..Len(h.reqs) : h.reqs[k].slice \in Range(h.slicesToRun)
       /\ \A k, l \in 1..Len(h.reqs) :
            k < l => PosIn(h.slicesToRun, h.reqs[k].slice)
                       < PosIn(h.slicesToRun, h.reqs[l].slice)

\* An invocation waiting for its second request, the first one settled.
SecondRequestAfterFirst ==
  \E r \in Runs :
    /\ InProgress(r)
    /\ Len(runs[r].reqs) = 2
    /\ Len(runs[r].results) = 1

\* C10: a candidate that does not resolve, or resolves to fewer than 2
\* examples, when the invocation reaches it is passed over: no request is
\* issued for it and it gets no entry in the working map, and the invocation
\* goes on with the next candidate.  A request is issued only for a slice that
\* resolves to at least 2 examples at that moment.
UndersizedSlicesSkipped ==
  /\ \A r \in Runs : runs[r].pc \in {"idle", "awaiting", "done", "aborted"}
  /\ \A h \in Histories :
       LET asked == {h.reqs[k].slice : k \in 1..Len(h.reqs)}
           over == {sk.slice : sk \in h.skipped}
           reached == {h.slicesToRun[k] :
                         k \in {m \in 1..Len(h.slicesToRun) : m <= h.i}}
       IN /\ \A k \in 1..Len(h.reqs) : Qualifies(h.reqs[k].resolved)
          /\ \A sk \in h.skipped : ~Qualifies(sk.resolved)
          /\ over \cap asked = {}
          /\ over \cap DOMAIN h.scores = {}
          /\ over \cup asked = reached

\* An invocation that passed over a slice, one unresolved or one too small,
\* and then asked for a later one.
SkippedThenAsked ==
  \E r \in Runs :
    /\ InProgress(r)
    /\ \E sk \in runs[r].skipped :
         /\ sk.resolved.isNull \/ Len(sk.resolved.ids) = 1
         /\ PosIn(runs[r].slicesToRun, sk.slice)
              < PosIn(runs[r].slicesToRun, runs[r].reqs[Len(runs[r].reqs)].slice)

\* C11: every request issued names the method "tcav" and carries all the
\* examples of the current dataset, the current model and dataset name, and a
\* configuration whose concept set is the list of ids the slice resolves to,
\* whose class is the selected class and whose layer is the selected layer.
RequestCarriesConfig ==
  [][\A p \in pending' \ pending :
       /\ p.name = "tcav"
       /\ p.inputs = currentInputData
       /\ p.model = model
       /\ p.dataset = currentDataset
       /\ ~getSliceByName(p.slice).isNull
       /\ p.config = [concept_set_ids |-> getSliceByName(p.slice).ids,
                      class_to_explain |-> selectedClass,
                      grad_layer |-> selectedLayer]]_vars

\* A request in flight for a slice of two examples out of the four of the
\* dataset, asked with a class and a layer chosen.
RequestInFlight ==
  \E p \in pending :
    /\ p.config.concept_set_ids = <<2, 3>>
    /\ p.inputs = <<1, 2, 3, 4>>
    /\ p.config.class_to_explain = "cat"
    /\ p.config.grad_layer = "L1"

\* The positions of the model's output fields of a type.
FieldsOfType(type) ==
  {k \in 1..Len(modelSpec.output) : modelSpec.output[k].type = type}

FirstOfType(type) ==
  modelSpec.output[CHOOSE k \in FieldsOfType(type) :
                     \A m \in FieldsOfType(type) : k <= m]

\* C12: when firstUpdated runs, an empty selected layer becomes the model's
\* first gradient layer if it has one, an empty selected class becomes the
\* first class of the vocabulary if there is one, and a layer or class already
\* set is kept.  This happens once: afterwards the layer and the class change
\* only when the user picks another in a dropdown.
DefaultSelectionOnce ==
  /\ [][(~rendered /\ rendered') =>
          /\ selectedLayer' =
               IF selectedLayer = "" /\ FieldsOfType("Gradients") # {}
               THEN FirstOfType("Gradients").key ELSE selectedLayer
          /\ selectedClass' =
               IF /\ selectedClass = ""
                  /\ FieldsOfType("MulticlassPreds") # {}
                  /\ FirstOfType("MulticlassPreds").vocab # <<>>
               THEN FirstOfType("MulticlassPreds").vocab[1] ELSE selectedClass]_vars
  /\ [][rendered =>
          /\ rendered'
          /\ (selectedLayer' # selectedLayer \/ selectedClass' # selectedClass)
               => events' = events + 1]_vars

\* The class was set by default, the user then chose "all" as the layer, and
\* an invocation has completed since: the layer is still "all".
DefaultKeptAfterRun ==
  /\ rendered
  /\ gradKeys = <<"L1", "L2">>
  /\ selectedLayer = ALL
  /\ selectedClass = "cat"
  /\ writer # 0

\* C13: once the element has been drawn no error has been raised, and the
\* list of classes is the vocabulary of the model's first MulticlassPreds
\* output, or the empty list when the model has none.
PredClassesTotal ==
  phase # "new" =>
    /\ phase # "threw"
    /\ predClasses = IF FieldsOfType("MulticlassPreds") = {} THEN <<>>
                     ELSE FirstOfType("MulticlassPreds").vocab

\* C14: the module is to be shown exactly when the model has an Embeddings
\* output, a Gradients output and a MulticlassPreds output; the dataset spec
\* makes no difference.
DisplayGate ==
  /\ display # "unknown" =>
       (display = "shown" <=> /\ FieldsOfType("Embeddings") # {}
                              /\ FieldsOfType("Gradients") # {}
                              /\ FieldsOfType("MulticlassPreds") # {})
  /\ \A ds \in PanelDatasetSpecs :
       shouldDisplayModule(modelSpec, ds) = shouldDisplayModule(modelSpec, datasetSpec)

\* A model with gradients and predictions but no embedding is not shown.
HiddenWithoutEmbeddings ==
  /\ display = "hidden"
  /\ FieldsOfType("Embeddings") = {}
  /\ FieldsOfType("Gradients") # {}
  /\ FieldsOfType("MulticlassPreds") # {}

\* C15: while the invocation started last is in progress, isLoading is true.
LoadingWhileLastRunInProgress ==
  \A r \in Runs : (InProgress(r) /\ r = nRuns) => isLoading

\* C16: the requests of one invocation all carry the class and the layer that
\* were selected when it started (its first request is made in the step that
\* starts it), and its list of candidates stays the one it started with.
RunKeepsClassAndLayer ==
  /\ [](\A h \in Histories :
          \A k \in 1..Len(h.reqs) :
            /\ h.reqs[k].config.class_to_explain = h.reqs[1].config.class_to_explain
            /\ h.reqs[k].config.grad_layer = h.reqs[1].config.grad_layer)
  /\ [][\A r \in Runs :
          (InProgress(r) /\ runs'[r].pc = "awaiting")
            => runs'[r].slicesToRun = runs[r].slicesToRun]_vars

\* C17: no step of an invocation changes the selected slice, layer or class;
\* and a change made in one dropdown leaves the two other selections,
\* isLoading and this.scores as they were.
FrameOfOperations ==
  [][/\ (runs' # runs \/ nRuns' # nRuns \/ pending' # pending) =>
          /\ selectedSlice' = selectedSlice
          /\ selectedLayer' = selectedLayer
          /\ selectedClass' = selectedClass
     /\ (rendered /\ selectedSlice' # selectedSlice) =>
          /\ selectedLayer' = selectedLayer /\ selectedClass' = selectedClass
          /\ isLoading' = isLoading /\ scores' = scores
     /\ (rendered /\ selectedLayer' # selectedLayer) =>
          /\ selectedSlice' = selectedSlice /\ selectedClass' = selectedClass
          /\ isLoading' = isLoading /\ scores' = scores
     /\ (rendered /\ selectedClass' # selectedClass) =>
          /\ selectedSlice' = selectedSlice /\ selectedLayer' = selectedLayer
          /\ isLoading' = isLoading /\ scores' = scores]_vars

\* The slice was changed while an invocation was in progress and the chart
\* held the map of an earlier one.
SliceChangedDuringRun ==
  /\ events = 1
  /\ selectedSlice = "a"
  /\ selectedLayer = "L1"
  /\ selectedClass = "cat"
  /\ isLoading
  /\ InProgress(2)
  /\ scores # EmptyMap

\* Each request of an invocation settles at some time.
LiveSpec ==
  /\ Spec
  /\ \A r \in Runs :
       WF_vars(\E p \in pending, result \in Results : p.run = r /\ Settle(p, result))

====
